---- MODULE Spec2Model ----
(***************************************************************************)
(* Model of app.py: the survey dashboard script.  One script run is        *)
(*   run_query (st.cache_data wrapper, init_connection, read_sql_query)    *)
(*   followed by the module body (df.empty guard, aggregation, charts).    *)
(* Text values that the code processes character by character are tuples   *)
(* of one-character strings; a nullable cell is <<>> (null) or <<v>>.      *)
(***************************************************************************)
EXTENDS Integers, Sequences, FiniteSets, TLC

\* ---------------------------------------------------------------- bounds
MaxCycles == 3
MaxRows == 3
MaxLen == 2

\* ------------------------------------------------------ program constants
TTL == 600

QUERY == "SELECT * FROM respostas_questionario_quilombola;"

ORDER_MAP == <<"Nunca", "Raramente", "Ocasionalmente", "Frequentemente", "Muito frequentemente">>

\* ------------------------------------------------------------ null cells
None == <<>>
Some(v) == <<v>>
isna(c) == c = None

\* -------------------------------------------------------- str operations
Whitespace == {" "}

RECURSIVE lstrip(_)
lstrip(s) == IF s # <<>> /\ Head(s) \in Whitespace THEN lstrip(Tail(s)) ELSE s

RECURSIVE rstrip(_)
rstrip(s) ==
    IF s # <<>> /\ s[Len(s)] \in Whitespace
    THEN rstrip(SubSeq(s, 1, Len(s) - 1))
    ELSE s

\* item.strip()
strip(s) == rstrip(lstrip(s))

\* .str.split(','): every separator cuts, empty fragments are kept
RECURSIVE split(_, _)
split(s, sep) ==
    IF \E i \in 1..Len(s) : s[i] = sep
    THEN LET i == CHOOSE k \in 1..Len(s) :
                      s[k] = sep /\ \A j \in 1..(k - 1) : s[j] # sep
         IN  <<SubSeq(s, 1, i - 1)>> \o split(SubSeq(s, i + 1, Len(s)), sep)
    ELSE <<s>>

\* ----------------------------------------------------- pandas operations
\* df[name]
Column(frame, name) == [i \in 1..Len(frame) |-> frame[i][name]]

\* .dropna(): the non-null values, in row order
RECURSIVE dropna(_)
dropna(col) ==
    IF col = <<>> THEN <<>>
    ELSE IF isna(Head(col)) THEN dropna(Tail(col))
    ELSE <<Head(col)[1]>> \o dropna(Tail(col))

\* [item.strip() for sublist in <col>.dropna().str.split(',') for item in sublist]
RECURSIVE strip_all(_)
strip_all(frags) ==
    IF frags = <<>> THEN <<>>
    ELSE <<strip(Head(frags))>> \o strip_all(Tail(frags))

RECURSIVE tag_list_of(_)
tag_list_of(values) ==
    IF values = <<>> THEN <<>>
    ELSE strip_all(split(Head(values), ",")) \o tag_list_of(Tail(values))

tag_list(col) == tag_list_of(dropna(col))

\* collections.Counter(list).items(): <<label, count>> in first-insertion order
CounterAdd(acc, x) ==
    IF \E i \in 1..Len(acc) : acc[i][1] = x
    THEN [i \in 1..Len(acc) |-> IF acc[i][1] = x THEN <<x, acc[i][2] + 1>> ELSE acc[i]]
    ELSE Append(acc, <<x, 1>>)

RECURSIVE CounterFrom(_, _)
CounterFrom(acc, list) ==
    IF list = <<>> THEN acc
    ELSE CounterFrom(CounterAdd(acc, Head(list)), Tail(list))

Counter(list) == CounterFrom(<<>>, list)

Range(seq) == {seq[i] : i \in 1..Len(seq)}

\* .sort_values(<count>, ascending=False) with the default kind ('quicksort'):
\* the result is in non-increasing count order; the algorithm is not stable,
\* so rows with equal counts may come out in any relative order.  The
\* operator is the set of results the sort can produce.
RECURSIVE sorted_desc(_)
sorted_desc(S) ==
    IF S = {} THEN {<<>>}
    ELSE LET top == {p \in S : \A q \in S : q[2] <= p[2]}
         IN  UNION {{<<p>> \o rest : rest \in sorted_desc(S \ {p})} : p \in top}

sort_values(pairs) == sorted_desc(Range(pairs))

\* value_counts with dropna=False: null rows are counted under a label of their own
value_counts_keepna(col) ==
    sort_values(Counter([i \in 1..Len(col) |-> IF isna(col[i]) THEN "NaN" ELSE col[i][1]]))

\* Series.value_counts(): null excluded (dropna=True), values counted
\* verbatim, sorted by count descending (sort=True)
value_counts(col) == sort_values(Counter(dropna(col)))

\* selection of the labels the index holds instead of a reindex: absent labels
\* are left out
RECURSIVE reindex_present(_, _)
reindex_present(vc, labels) ==
    IF labels = <<>> THEN <<>>
    ELSE (IF \E k \in 1..Len(vc) : vc[k][1] = Head(labels)
          THEN << <<Head(labels),
                    Some(vc[CHOOSE k \in 1..Len(vc) : vc[k][1] = Head(labels)][2])>> >>
          ELSE <<>>)
         \o reindex_present(vc, Tail(labels))

\* .reindex(labels): one entry per label, in the labels' order; the count
\* when the label is in the index, NaN (null) otherwise
reindex(vc, labels) ==
    [i \in 1..Len(labels) |->
        IF \E k \in 1..Len(vc) : vc[k][1] = labels[i]
        THEN <<labels[i], Some(vc[CHOOSE k \in 1..Len(vc) : vc[k][1] = labels[i]][2])>>
        ELSE <<labels[i], None>>]

\* .fillna(v)
fillna(series, v) ==
    [i \in 1..Len(series) |->
        <<series[i][1], IF isna(series[i][2]) THEN v ELSE series[i][2][1]>>]

\* a test for 'no frame' instead of 'no rows': a DataFrame is never None
is_none(frame) == FALSE

\* df.empty
empty(frame) == Len(frame) = 0

\* ------------------------------------------------------------------ data
\* one row of respostas_questionario_quilombola (the columns the script reads)
DefaultRow ==
    [universidade                      |-> Some("UFBA"),
     curso                             |-> Some(<<"L", "e", "t", "r", "a", "s">>),
     acesso_leitura_comunidade         |-> Some(<<"A">>),
     equipamentos_utilizados           |-> Some(<<"B">>),
     acesso_internet_comunidade        |-> Some("Boa"),
     avaliacao_tecnologia_universidade |-> Some("Regular"),
     frequencia_acesso_geral           |-> Some("Nunca"),
     frequencia_leitura_textos_longos  |-> Some("Raramente"),
     justificativa_leitura_longa       |-> None,
     experiencia_antes_depois          |-> Some("exp")]

OtherRow ==
    [universidade                      |-> Some("UNEB"),
     curso                             |-> Some(<<"l", "e", "t", "r", "a", "s", " ">>),
     acesso_leitura_comunidade         |-> Some(<<"B", ",", " ", "A">>),
     equipamentos_utilizados           |-> None,
     acesso_internet_comunidade        |-> None,
     avaliacao_tecnologia_universidade |-> Some("Regular"),
     frequencia_acesso_geral           |-> Some("N/A"),
     frequencia_leitura_textos_longos  |-> None,
     justificativa_leitura_longa       |-> Some("just"),
     experiencia_antes_depois          |-> None]

\* contents the table can have when the query runs
StoreTables == {<<>>, <<DefaultRow>>, <<DefaultRow, OtherRow>>}

\* what the script finds outside itself on one run: st.secrets["postgres"]["url"]
\* present, the server reachable, the table matching the query, and its rows
Envs == [secrets : BOOLEAN, up : BOOLEAN, table : BOOLEAN, rows : StoreTables]

\* seconds between two script runs
Delays == {1, TTL - 1, TTL}

VARIABLES
    now,          \* clock of the cache (seconds)
    cache,        \* st.cache_data store of run_query: argument -> entry or null
    conns,        \* every connection psycopg2.connect returned, "open" / "closed"
    pc,           \* position of the script run
    df,           \* module-level df: unbound (null) or the frame run_query returned
    page,         \* elements shown by this run, in order
    out,          \* the series handed to the charts by this run, or null
    env,          \* environment of this run
    cycles,       \* script runs started
    attempts,     \* psycopg2.connect calls so far
    executed,     \* pd.read_sql_query calls so far
    callAttempts, \* psycopg2.connect calls of this run
    outcome,      \* how run_query ended in this run
    prevOutcome,  \* how run_query ended in the previous run
    lastDelay     \* seconds between the previous run and this one

vars == <<now, cache, conns, pc, df, page, out, env, cycles, attempts, executed,
          callAttempts, outcome, prevOutcome, lastDelay>>

\* ------------------------------------------------------ st.cache_data(ttl)
\* an entry served up to and including its expiry instant
FreshInclusive(c, q, t) == c[q] # None /\ t <= c[q][1].expires

\* an entry is served while the clock is before its expiry
Fresh(c, q, t) == c[q] # None /\ t < c[q][1].expires

\* a store that keeps only frames with rows
RememberNonEmpty(c, q, v, m, t) ==
    IF v = <<>> THEN c
    ELSE [c EXCEPT ![q] = Some([value |-> v, msgs |-> m, expires |-> t + TTL])]

\* a returned value is stored with the elements the call showed (replayed on
\* a hit) and expires ttl seconds after it was stored
Remember(c, q, v, m, t) ==
    [c EXCEPT ![q] = Some([value |-> v, msgs |-> m, expires |-> t + TTL])]

\* ---------------------------------------------------------- init_connection
\* KeyError (no secret) and OperationalError (no server) are caught: st.error
\* and None; anything else is the connection
init_connection(e) ==
    IF ~e.secrets THEN [conn |-> FALSE, msgs |-> <<"error">>]
    ELSE IF ~e.up THEN [conn |-> FALSE, msgs |-> <<"error">>]
    ELSE [conn |-> TRUE, msgs |-> <<>>]

\* state of a psycopg2 connection when its 'with' block exits: the
\* transaction is committed or rolled back and the connection stays open
with_conn_exit == "open"

\* ------------------------------------------------------------------ run_query
CacheHit ==
    /\ pc = "start"
    /\ Fresh(cache, QUERY, now)
    /\ df' = Some(cache[QUERY][1].value)
    /\ page' = page \o cache[QUERY][1].msgs
    /\ outcome' = "hit"
    /\ pc' = "loaded"
    /\ UNCHANGED <<now, cache, conns, out, env, cycles, attempts, executed,
                   callAttempts, prevOutcome, lastDelay>>

ConnectFailed ==
    /\ pc = "start"
    /\ ~Fresh(cache, QUERY, now)
    /\ LET r == init_connection(env)
       IN  /\ ~r.conn
           /\ df' = Some(<<>>)
           /\ cache' = Remember(cache, QUERY, <<>>, r.msgs, now)
           /\ page' = page \o r.msgs
    /\ attempts' = attempts + 1
    /\ callAttempts' = callAttempts + 1
    /\ outcome' = "connfail"
    /\ pc' = "loaded"
    /\ UNCHANGED <<now, conns, out, env, cycles, executed, prevOutcome, lastDelay>>

QueryReturned ==
    /\ pc = "start"
    /\ ~Fresh(cache, QUERY, now)
    /\ LET r == init_connection(env)
       IN  /\ r.conn
           /\ env.table
           /\ df' = Some(env.rows)
           /\ cache' = Remember(cache, QUERY, env.rows, r.msgs, now)
           /\ page' = page \o r.msgs
    /\ conns' = Append(conns, with_conn_exit)
    /\ attempts' = attempts + 1
    /\ callAttempts' = callAttempts + 1
    /\ executed' = executed + 1
    /\ outcome' = "ok"
    /\ pc' = "loaded"
    /\ UNCHANGED <<now, out, env, cycles, prevOutcome, lastDelay>>

\* a run_query that catches the failure of read_sql_query and returns the
\* empty frame, as it does for a failed connection
QueryCaught ==
    /\ pc = "start"
    /\ ~Fresh(cache, QUERY, now)
    /\ LET r == init_connection(env)
       IN  /\ r.conn
           /\ ~env.table
           /\ df' = Some(<<>>)
           /\ cache' = Remember(cache, QUERY, <<>>, r.msgs, now)
           /\ page' = page \o r.msgs
    /\ conns' = Append(conns, with_conn_exit)
    /\ attempts' = attempts + 1
    /\ callAttempts' = callAttempts + 1
    /\ executed' = executed + 1
    /\ outcome' = "queryfail"
    /\ pc' = "loaded"
    /\ UNCHANGED <<now, out, env, cycles, prevOutcome, lastDelay>>

\* read_sql_query raises inside the 'with' block: nothing catches it, nothing
\* is stored, the script run stops and Streamlit shows the exception
QueryRaised ==
    /\ pc = "start"
    /\ ~Fresh(cache, QUERY, now)
    /\ LET r == init_connection(env)
       IN  /\ r.conn
           /\ ~env.table
           /\ page' = (page \o r.msgs) \o <<"exception">>
    /\ conns' = Append(conns, with_conn_exit)
    /\ attempts' = attempts + 1
    /\ callAttempts' = callAttempts + 1
    /\ executed' = executed + 1
    /\ outcome' = "queryfail"
    /\ pc' = "crashed"
    /\ UNCHANGED <<now, cache, df, out, env, cycles, prevOutcome, lastDelay>>

run_query == CacheHit \/ ConnectFailed \/ QueryReturned \/ QueryRaised

\* ---------------------------------------------------------------- module body
Warn ==
    /\ pc = "loaded"
    /\ empty(df[1])
    /\ page' = page \o <<"title", "markdown", "warning">>
    /\ pc' = "done"
    /\ UNCHANGED <<now, cache, conns, df, out, env, cycles, attempts, executed,
                   callAttempts, outcome, prevOutcome, lastDelay>>

Pipeline ==
    /\ pc = "loaded"
    /\ ~empty(df[1])
    /\ \E uni \in value_counts(Column(df[1], "universidade")),
          cur \in value_counts(Column(df[1], "curso")),
          ace \in sort_values(Counter(tag_list(Column(df[1], "acesso_leitura_comunidade")))),
          equ \in sort_values(Counter(tag_list(Column(df[1], "equipamentos_utilizados")))),
          net \in value_counts(Column(df[1], "acesso_internet_comunidade")),
          tec \in value_counts(Column(df[1], "avaliacao_tecnologia_universidade")),
          fa  \in value_counts(Column(df[1], "frequencia_acesso_geral")),
          fl  \in value_counts(Column(df[1], "frequencia_leitura_textos_longos")) :
          out' = Some([uni_counts         |-> uni,
                       curso_counts       |-> cur,
                       df_acesso          |-> ace,
                       df_equip           |-> equ,
                       internet_counts    |-> net,
                       tec_uni_counts     |-> tec,
                       freq_acesso_counts |-> fillna(reindex(fa, ORDER_MAP), 0),
                       freq_longos_counts |-> fillna(reindex(fl, ORDER_MAP), 0),
                       justificativas     |-> dropna(Column(df[1], "justificativa_leitura_longa")),
                       experiencias       |-> dropna(Column(df[1], "experiencia_antes_depois"))])
    /\ page' = page \o <<"title", "markdown", "charts">>
    /\ pc' = "done"
    /\ UNCHANGED <<now, cache, conns, df, env, cycles, attempts, executed,
                   callAttempts, outcome, prevOutcome, lastDelay>>

ModuleBody == Warn \/ Pipeline

\* ------------------------------------------------------------- environment
\* the next script run, d seconds later, in environment e
Rerun(d, e) ==
    /\ pc \in {"done", "crashed"}
    /\ cycles < MaxCycles
    /\ now' = now + d
    /\ env' = e
    /\ cycles' = cycles + 1
    /\ df' = None
    /\ page' = <<>>
    /\ out' = None
    /\ callAttempts' = 0
    /\ prevOutcome' = outcome
    /\ outcome' = "none"
    /\ lastDelay' = d
    /\ pc' = "start"
    /\ UNCHANGED <<cache, conns, attempts, executed>>

\* the interpreter finalises a connection object nothing refers to any more
Collect(i) ==
    /\ conns[i] = "open"
    /\ conns' = [conns EXCEPT ![i] = "closed"]
    /\ UNCHANGED <<now, cache, pc, df, page, out, env, cycles, attempts, executed,
                   callAttempts, outcome, prevOutcome, lastDelay>>

Init ==
    /\ now = 0
    /\ cache = [q \in {QUERY} |-> None]
    /\ conns = <<>>
    /\ pc = "start"
    /\ df = None
    /\ page = <<>>
    /\ out = None
    /\ env \in Envs
    /\ cycles = 1
    /\ attempts = 0
    /\ executed = 0
    /\ callAttempts = 0
    /\ outcome = "none"
    /\ prevOutcome = "none"
    /\ lastDelay = 0

Next ==
    \/ run_query
    \/ ModuleBody
    \/ \E d \in Delays, e \in Envs : Rerun(d, e)
    \/ \E i \in 1..Len(conns) : Collect(i)

Spec == Init /\ [][Next]_vars

\* ---------------------------------------------------- pipeline on its own
\* Inputs of the aggregation code: frames of at most MaxRows rows in which one
\* column ranges over a set of cells and the others are DefaultRow's, together
\* with the frames of the documented scenarios.
Strings(chars, n) == UNION {[1..k -> chars] : k \in 0..n}

Cells(values) == {None} \cup {Some(v) : v \in values}

FrameOf(col, cellseq) == [i \in 1..Len(cellseq) |-> [DefaultRow EXCEPT ![col] = cellseq[i]]]

\* the state in which run_query has just fetched and returned frame
Loaded(frame) ==
    /\ now = 0
    /\ env = [secrets |-> TRUE, up |-> TRUE, table |-> TRUE, rows |-> frame]
    /\ cache = Remember([q \in {QUERY} |-> None], QUERY, frame, <<>>, 0)
    /\ conns = <<with_conn_exit>>
    /\ pc = "loaded"
    /\ df = Some(frame)
    /\ page = <<>>
    /\ out = None
    /\ cycles = 1
    /\ attempts = 1
    /\ executed = 1
    /\ callAttempts = 1
    /\ outcome = "ok"
    /\ prevOutcome = "none"
    /\ lastDelay = 0

\* multi-value columns
TagChars == {"A", "B", ",", " "}

TagColumns == {"acesso_leitura_comunidade", "equipamentos_utilizados"}

ScenarioTags ==
    { <<Some(<<"A", ",", " ", "B", " ", ",", "C">>)>>,
      <<Some(<<"P", "h", "o", "n", "e", ",", "C", "o", "m", "p", "u", "t", "e", "r">>),
        None,
        Some(<<"P", "h", "o", "n", "e">>)>>,
      <<Some(<<"A", ",", ",", "B">>)>>,
      <<Some(<<"B", ",", "A">>), Some(<<"C", ",", "A">>)>> }

TagCells == Cells(Strings(TagChars, MaxLen))

InitTags ==
    \E col \in TagColumns :
        \/ \E k \in 0..MaxRows : \E cs \in [1..k -> TagCells] : Loaded(FrameOf(col, cs))
        \/ \E cs \in ScenarioTags : Loaded(FrameOf(col, cs))

SpecTags == InitTags /\ [][ModuleBody]_vars

\* categorical columns, counted verbatim
CatLabels == Range(ORDER_MAP) \cup {"N/A"}

CatColumns ==
    {"universidade", "acesso_internet_comunidade", "avaliacao_tecnologia_universidade",
     "frequencia_acesso_geral", "frequencia_leitura_textos_longos"}

CatCells == Cells(CatLabels)

InitCounts ==
    \E col \in CatColumns :
        \E k \in 0..MaxRows : \E cs \in [1..k -> CatCells] : Loaded(FrameOf(col, cs))

SpecCounts == InitCounts /\ [][ModuleBody]_vars

\* the course column
CursoChars == {"a", "A", " "}

ScenarioCurso ==
    { <<Some(<<"L", "e", "t", "r", "a", "s">>),
        Some(<<"l", "e", "t", "r", "a", "s", " ">>),
        Some(<<" ", "L", "E", "T", "R", "A", "S">>)>> }

CursoCells == Cells(Strings(CursoChars, MaxLen))

InitCurso ==
    \/ \E k \in 0..MaxRows : \E cs \in [1..k -> CursoCells] : Loaded(FrameOf("curso", cs))
    \/ \E cs \in ScenarioCurso : Loaded(FrameOf("curso", cs))

SpecCurso == InitCurso /\ [][ModuleBody]_vars

\* ======================================================================
\* Properties
\* ======================================================================
Finished == pc \in {"loaded", "crashed", "done"}

CycleEnded == pc \in {"crashed", "done"}

\* a step of the script run that is the call of run_query
FetchStep == pc = "start" /\ pc' # "start"

\* seconds since the remembered entry was stored
Age == now - (cache[QUERY][1].expires - TTL)

RECURSIVE SumCounts(_)
SumCounts(pairs) == IF pairs = <<>> THEN 0 ELSE Head(pairs)[2] + SumCounts(Tail(pairs))

Labels(pairs) == {pairs[i][1] : i \in 1..Len(pairs)}

IndexOf(pairs, label) == CHOOSE i \in 1..Len(pairs) : pairs[i][1] = label

RowsWith(col, cell) == {r \in 1..Len(df[1]) : df[1][r][col] = cell}

C2_ConnectionsReleased ==
    Finished => \A i \in 1..Len(conns) : conns[i] = "closed"

\* C3: when the connection attempt of a call fails, the call makes exactly one
\* attempt, an error is shown, the caller gets the empty frame, and the run
\* ends with the warning and without any aggregation or chart.
C3_ConnectionFailure ==
    outcome = "connfail" =>
        /\ callAttempts = 1
        /\ "error" \in Range(page)
        /\ df = Some(<<>>)
        /\ out = None
        /\ "charts" \notin Range(page)
        /\ (CycleEnded => pc = "done" /\ "warning" \in Range(page))

C3_Witness == outcome = "connfail" /\ pc = "done" /\ ~env.up /\ env.secrets

C5_NoEmptyTag ==
    out # None =>
        /\ <<>> \notin Labels(out[1].df_acesso)
        /\ <<>> \notin Labels(out[1].df_equip)
        /\ \A col \in TagColumns :
             LET tags == IF col = "acesso_leitura_comunidade"
                         THEN out[1].df_acesso ELSE out[1].df_equip
             IN  /\ (df[1] = FrameOf(col, <<Some(<<"A", ",", " ", "B", " ", ",", "C">>)>>)
                       => Range(tags) = {<< <<"A">>, 1 >>, << <<"B">>, 1 >>, << <<"C">>, 1 >>})
                 /\ (df[1] = FrameOf(col,
                         <<Some(<<"P", "h", "o", "n", "e", ",", "C", "o", "m", "p", "u", "t", "e", "r">>),
                           None, Some(<<"P", "h", "o", "n", "e">>)>>)
                       => Range(tags) = {<< <<"P", "h", "o", "n", "e">>, 2 >>,
                                         << <<"C", "o", "m", "p", "u", "t", "e", "r">>, 1 >>})
                 /\ (RowsWith(col, None) = 1..Len(df[1]) => tags = <<>>)

\* C6: each ordered frequency series has exactly the labels of ORDER_MAP, in
\* ORDER_MAP's order; each label carries the number of rows holding it (0 when
\* none does); labels of the data outside ORDER_MAP do not appear.
C6_OrderedFrequency ==
    out # None =>
        \A p \in {<<out[1].freq_acesso_counts, "frequencia_acesso_geral">>,
                  <<out[1].freq_longos_counts, "frequencia_leitura_textos_longos">>} :
            /\ Len(p[1]) = Len(ORDER_MAP)
            /\ \A i \in 1..Len(ORDER_MAP) :
                 /\ p[1][i][1] = ORDER_MAP[i]
                 /\ p[1][i][2] = Cardinality(RowsWith(p[2], Some(ORDER_MAP[i])))

C6_Witness ==
    /\ out # None
    /\ RowsWith("frequencia_acesso_geral", Some("N/A")) # {}
    /\ Cardinality(RowsWith("frequencia_acesso_geral", Some("Frequentemente"))) = 2
    /\ RowsWith("frequencia_acesso_geral", Some("Nunca")) = {}

\* C7: the counts of a categorical column sum to at most the number of rows,
\* and to exactly the number of rows iff no row is null in that column.
C7_CountSum ==
    out # None =>
        \A p \in {<<out[1].uni_counts, "universidade">>,
                  <<out[1].internet_counts, "acesso_internet_comunidade">>,
                  <<out[1].tec_uni_counts, "avaliacao_tecnologia_universidade">>} :
            /\ SumCounts(p[1]) <= Len(df[1])
            /\ (SumCounts(p[1]) = Len(df[1]) <=> RowsWith(p[2], None) = {})

C7_Witness ==
    /\ out # None
    /\ Len(df[1]) = 3
    /\ Cardinality(RowsWith("universidade", None)) = 1
    /\ SumCounts(out[1].uni_counts) = 2

\* normalisation the course count is said to apply: strip, then title case
Lowers == <<"a", "e", "l", "r", "s", "t">>

Uppers == <<"A", "E", "L", "R", "S", "T">>

IsLetter(c) == c \in Range(Lowers) \cup Range(Uppers)

upper(c) == IF c \in Range(Lowers) THEN Uppers[CHOOSE i \in 1..Len(Lowers) : Lowers[i] = c] ELSE c

lower(c) == IF c \in Range(Uppers) THEN Lowers[CHOOSE i \in 1..Len(Uppers) : Uppers[i] = c] ELSE c

title(s) ==
    [i \in 1..Len(s) |-> IF i = 1 \/ ~IsLetter(s[i - 1]) THEN upper(s[i]) ELSE lower(s[i])]

Normalize(s) == title(strip(s))

\* C8: the course count trims and title-cases each value first, so values
\* differing only in case or surrounding whitespace share one category: every
\* label is in normal form and carries the number of rows whose value
\* normalises to it; ["Letras", "letras ", " LETRAS"] gives {"Letras": 3}.
C8_NormalizedCourse ==
    out # None =>
        /\ \A i \in 1..Len(out[1].curso_counts) :
             LET label == out[1].curso_counts[i][1]
             IN  /\ Normalize(label) = label
                 /\ out[1].curso_counts[i][2] =
                      Cardinality({r \in 1..Len(df[1]) :
                          /\ df[1][r].curso # None
                          /\ Normalize(df[1][r].curso[1]) = label})
        /\ (df[1] \in {FrameOf("curso", cs) : cs \in ScenarioCurso}
              => out[1].curso_counts = << << <<"L", "e", "t", "r", "a", "s">>, 3 >> >>)

C10_FailureMemory ==
    /\ (outcome = "connfail" =>
           cache[QUERY] = Some([value |-> <<>>, msgs |-> <<"error">>, expires |-> now + 600]))
    /\ ((prevOutcome = "connfail" /\ lastDelay < 600 /\ outcome # "none") =>
           /\ outcome = "hit"
           /\ df = Some(<<>>)
           /\ callAttempts = 0)
    /\ ((prevOutcome = "queryfail" /\ outcome # "none") =>
           /\ outcome # "hit"
           /\ callAttempts = 1)

C10_Witness ==
    /\ prevOutcome = "connfail"
    /\ outcome = "hit"
    /\ env.secrets /\ env.up /\ env.table /\ env.rows # <<>>
    /\ pc = "done"

====
